---- MODULE Spec2Model ----
(***************************************************************************)
(* A model of core_codecommit/listener.py: the CodeCommit commit listener  *)
(* that extracts deployment details from each record of an event, writes   *)
(* a build_time parameter to the SSM parameter store to obtain a build     *)
(* number, and starts a CodeBuild project.                                 *)
(*                                                                         *)
(* Python strings are sequences of one-character strings, Python dicts     *)
(* are functions whose DOMAIN is the set of keys present, Python lists     *)
(* are sequences.                                                          *)
(*                                                                         *)
(* Several handler invocations run side by side and share the store. An    *)
(* invocation takes one step per service call: Begin runs handler up to    *)
(* its first call, AllocateBuildNumber is the put_parameter call,          *)
(* StartBuild the start_build call and the code up to the next call. Both  *)
(* services may fail any call with a ClientError. The store adds one to a  *)
(* parameter's version on every successful overwrite and serves each put   *)
(* atomically; CodeBuild numbers the builds it starts.                     *)
(*                                                                         *)
(* puts and builds are the logs of the calls served, kept to state the     *)
(* properties; the code reads neither.                                     *)
(***************************************************************************)
EXTENDS Integers, Sequences, FiniteSets, TLC

VARIABLES
    event,       \* per invocation: the event dict handed to handler
    pc,          \* per invocation: position inside handler
    idx,         \* per invocation: 1-based position of the for loop in records
    dd,          \* per invocation: the DeploymentDetails of the current record
    buildNumber, \* per invocation: build_number inside invoke_codebuild_project
    responses,   \* per invocation: the responses list of handler
    result,      \* per invocation: what handler returned or raised
    store,       \* the SSM parameter store: name -> [Version, Value]
    puts,        \* every put_parameter call, in the order the store served them
    builds,      \* every start_build call, in the order CodeBuild served them
    xrecord,     \* extractor harness: the record given to the extractor
    xresult      \* extractor harness: what the extractor produced

vars == <<event, pc, idx, dd, buildNumber, responses, result, store, puts,
          builds, xrecord, xresult>>

handlerVars == <<event, pc, idx, dd, buildNumber, responses, result, store, puts,
                 builds>>

extractVars == <<xrecord, xresult>>

-----------------------------------------------------------------------------
(* Bounds *)

\* longest repository name drawn for the extractor
MaxNameLen == 5

\* longest branch text X drawn after refs/heads/
MaxBranchLen == 3

\* most records in one event
MaxRecords == 2

\* concurrent handler invocations
NumInvocations == 2

-----------------------------------------------------------------------------
(* Python string primitives *)

Min(a, b) == IF a < b THEN a ELSE b

\* all sequences over S of length lo..hi
SeqsUpTo(S, lo, hi) == UNION {[1..n -> S] : n \in lo..hi}

RECURSIVE SplitFrom(_, _, _, _, _)
SplitFrom(s, sep, i, cur, acc) ==
    IF i > Len(s) THEN Append(acc, cur)
    ELSE IF s[i] = sep THEN SplitFrom(s, sep, i + 1, <<>>, Append(acc, cur))
    ELSE SplitFrom(s, sep, i + 1, Append(cur, s[i]), acc)

\* str.split(sep) for a one-character sep: always at least one part
Split(s, sep) == SplitFrom(s, sep, 1, <<>>, <<>>)

RECURSIVE Join(_, _)
\* sep.join(parts)
Join(parts, sep) ==
    IF Len(parts) = 0 THEN <<>>
    ELSE IF Len(parts) = 1 THEN parts[1]
    ELSE parts[1] \o <<sep>> \o Join(Tail(parts), sep)

\* s[:n]
Prefix(s, n) == SubSeq(s, 1, Min(n, Len(s)))

\* seq[-1]
Last(s) == s[Len(s)]

Digits == <<"0", "1", "2", "3", "4", "5", "6", "7", "8", "9">>

RECURSIVE IntToStr(_)
\* str(n) for a non-negative int
IntToStr(n) ==
    IF n < 10 THEN <<Digits[n + 1]>>
    ELSE IntToStr(n \div 10) \o <<Digits[(n % 10) + 1]>>

\* key in dict
Has(d, k) == k \in DOMAIN d

-----------------------------------------------------------------------------
(* __get_deployment_details *)

\* the repository name: record["eventSourceARN"].split(":")[-1]
RepoName(arn) == Last(Split(arn, ":"))

\* parts[-1] in place of parts[0]
RepoPortfolioLastToken(parts) == parts[Len(parts)]

\* parts[0]
RepoPortfolio(parts) == parts[1]

\* the first version of the code (listener.py:57) kept one token only
RepoAppSecondTokenOnly(parts) == IF Len(parts) > 1 THEN parts[2] ELSE <<>>

\* "-".join(parts[1:])
RepoApp(parts) == Join(Tail(parts), "-")

\* references["ref"].split("/")[-1]
RefBranch(ref) == Last(Split(ref, "/"))

\* the length of the short commit hash
ShortHashLen == 7

\* references["commit"][:7]
CommitBuild(commit) == Prefix(commit, ShortHashLen)

\* the client of a DeploymentDetails built without one (core_framework default)
DefaultClient == <<"c", "l">>

\* DeploymentDetails(Portfolio=, App=, Branch=, Build=); branch_short_name is
\* the branch itself for the lower-case one-segment branches drawn here
DeploymentDetails(portfolio, app, branch, build) ==
    [portfolio |-> portfolio, app |-> app, branch |-> branch, build |-> build,
     branch_short_name |-> branch, client |-> DefaultClient]

NoDD == DeploymentDetails(<<>>, <<>>, <<>>, <<>>)

Extracted(d) == [ok |-> TRUE, error |-> "", dd |-> d]

ExtractFailed(e) == [ok |-> FALSE, error |-> e, dd |-> NoDD]

\* the whole extractor: the dict and list accesses raise KeyError / IndexError
\* in the order the code performs them
GetDeploymentDetails(record) ==
    IF ~Has(record, "eventSourceARN") THEN ExtractFailed("KeyError")
    ELSE IF ~Has(record, "codecommit") THEN ExtractFailed("KeyError")
    ELSE IF ~Has(record.codecommit, "references") THEN ExtractFailed("KeyError")
    ELSE IF Len(record.codecommit.references) = 0 THEN ExtractFailed("IndexError")
    ELSE IF ~Has(record.codecommit.references[1], "ref") THEN ExtractFailed("KeyError")
    ELSE IF ~Has(record.codecommit.references[1], "commit") THEN ExtractFailed("KeyError")
    ELSE LET parts      == Split(RepoName(record.eventSourceARN), "-")
             references == record.codecommit.references[1]
         IN  Extracted(DeploymentDetails(RepoPortfolio(parts), RepoApp(parts),
                                         RefBranch(references.ref),
                                         CommitBuild(references.commit)))

-----------------------------------------------------------------------------
(* Extractor harness: records drawn from bounded sets *)

NameChars == {"a", "b", "-"}

BranchChars == {"m", "n", "/"}

RefsHeads == <<"r", "e", "f", "s", "/", "h", "e", "a", "d", "s", "/">>

ArnPrefix == <<"a", "r", "n", ":", "c", "c", ":", "1", ":">>

LongCommit == <<"a", "b", "c", "d", "e", "f", "1", "2", "3">>

ShortCommit == <<"a", "b", "c">>

RepoNames == SeqsUpTo(NameChars, 0, MaxNameLen)

BranchTexts == SeqsUpTo(BranchChars, 0, MaxBranchLen)

MkRecord(arn, refs) == [eventSourceARN |-> arn, codecommit |-> [references |-> refs]]

MkRef(ref, commit) == [ref |-> ref, commit |-> commit]

\* a record of the expected shape: its first reference is refs/heads/x, or
\* (two references, no ARN prefix) the bare text x
WellShapedRecord(name, x, shape) ==
    CASE shape = "long"  -> MkRecord(ArnPrefix \o name, <<MkRef(RefsHeads \o x, LongCommit)>>)
      [] shape = "short" -> MkRecord(ArnPrefix \o name, <<MkRef(RefsHeads \o x, ShortCommit)>>)
      [] shape = "bare"  -> MkRecord(name, <<MkRef(x, LongCommit),
                                             MkRef(RefsHeads \o <<"n">>, ShortCommit)>>)

Shapes == {"long", "short", "bare"}

MalformedRecords ==
    {[codecommit |-> [references |-> <<MkRef(RefsHeads \o <<"m">>, LongCommit)>>]],
     [eventSourceARN |-> ArnPrefix \o <<"a", "-", "b">>],
     [eventSourceARN |-> ArnPrefix \o <<"a", "-", "b">>, codecommit |-> [refs |-> <<>>]],
     MkRecord(ArnPrefix \o <<"a", "-", "b">>, <<>>),
     MkRecord(ArnPrefix \o <<"a", "-", "b">>, <<[commit |-> LongCommit]>>),
     MkRecord(ArnPrefix \o <<"a", "-", "b">>, <<[ref |-> RefsHeads \o <<"m">>]>>)}

NoRecord == [none |-> TRUE]

Pending == [ok |-> FALSE, error |-> "pending", dd |-> NoDD]

-----------------------------------------------------------------------------
(* __get_new_build_number and the SSM parameter store *)

\* "/{}/{}/{}/build_time".format(portfolio, app, branch_short_name)
BuildTimeSuffix == <<"/", "b", "u", "i", "l", "d", "_", "t", "i", "m", "e">>

\* a format string that leaves the app out
ParamNameWithoutApp(d) ==
    <<"/">> \o d.portfolio \o <<"/">> \o d.branch_short_name \o BuildTimeSuffix

ParamName(d) ==
    <<"/">> \o d.portfolio \o <<"/">> \o d.app \o <<"/">> \o d.branch_short_name
        \o BuildTimeSuffix

\* int(round(time.time() * 1000)): the wall clock may repeat or step back
TimeValues == {1700, 1699}

\* the version the store holds for a name (0: the parameter does not exist)
StoreVersion(st, name) == IF name \in DOMAIN st THEN st[name].Version ELSE 0

\* put_parameter(Name, Value, Type="String", Overwrite=True): the store
\* creates the parameter at version 1 or adds one to its version
PutParameter(st, name, value) ==
    [n \in DOMAIN st \cup {name} |->
        IF n = name THEN [Version |-> StoreVersion(st, name) + 1, Value |-> value]
        ELSE st[n]]

\* the response of put_parameter
PutResponse(st, name) == [Version |-> st[name].Version]

\* returning the timestamp written instead of the version
NewBuildNumberFromTime(response, current_time) == current_time

\* return str(response["Version"])
NewBuildNumber(response, current_time) == IntToStr(response.Version)

-----------------------------------------------------------------------------
(* invoke_codebuild_project *)

\* "{}-{}".format(dd.portfolio, dd.app)
ProjectName(d) == d.portfolio \o <<"-">> \o d.app

\* util.get_bucket_name()
BucketName == <<"b", "k", "t">>

EnvVar(name, value) == [name |-> name, value |-> value, type |-> "PLAINTEXT"]

\* BUILD_NUMBER conflated with BUILD
EnvVarsBuildConflated(d, build_number, bucket) ==
    <<EnvVar("CLIENT", d.client), EnvVar("PORTFOLIO", d.portfolio),
      EnvVar("APP", d.app), EnvVar("BRANCH", d.branch),
      EnvVar("BUILD", d.build), EnvVar("BUILD_NUMBER", d.build),
      EnvVar("BUCKET_NAME", bucket)>>

\* env_vars
EnvVars(d, build_number, bucket) ==
    <<EnvVar("CLIENT", d.client), EnvVar("PORTFOLIO", d.portfolio),
      EnvVar("APP", d.app), EnvVar("BRANCH", d.branch),
      EnvVar("BUILD", d.build), EnvVar("BUILD_NUMBER", build_number),
      EnvVar("BUCKET_NAME", bucket)>>

\* the descriptor CodeBuild answers start_build with; the service numbers
\* its builds, so every descriptor is distinct
StartBuildResponse(n, project, revision) ==
    [build |-> [id |-> IntToStr(n), projectName |-> project,
                sourceVersion |-> revision, buildStatus |-> "IN_PROGRESS"]]

NoResponse == StartBuildResponse(0, <<>>, <<>>)

-----------------------------------------------------------------------------
(* The logs of the calls served by the two services *)

\* one call of __get_new_build_number(deployment): the key of the deployment,
\* the put_parameter call made and what the function returned
PutCall(i, k, ok, d, name, version, returned) ==
    [inv |-> i, rec |-> k, ok |-> ok, key |-> <<d.portfolio, d.app, d.branch>>,
     name |-> name, version |-> version, returned |-> returned]

\* one start_build call and what CodeBuild answered
BuildCall(i, k, ok, project, revision, env, response) ==
    [inv |-> i, rec |-> k, ok |-> ok, projectName |-> project,
     sourceVersion |-> revision, environmentVariablesOverride |-> env,
     response |-> response]

\* the number of builds CodeBuild has started so far
BuildsStarted(log) == Cardinality({n \in 1..Len(log) : log[n].ok})

-----------------------------------------------------------------------------
(* handler *)

Invocations == 1..NumInvocations

NoResult == [kind |-> "none", error |-> "", Responses |-> <<>>]

\* event.get("Records", []) in place of the check
ValidateEventDefaulting(ev) ==
    [ok |-> TRUE, error |-> "",
     records |-> IF Has(ev, "Records") THEN ev.Records ELSE <<>>]

\* a truthiness test, which also rejects an empty list
ValidateEventTruthy(ev) ==
    IF ~Has(ev, "Records") \/ Len(ev.Records) = 0
    THEN [ok |-> FALSE, error |-> "ValueError: No 'Records' key in event",
          records |-> <<>>]
    ELSE [ok |-> TRUE, error |-> "", records |-> ev.Records]

\* if "Records" not in event: raise ValueError(...); records = event["Records"]
ValidateEvent(ev) ==
    IF ~Has(ev, "Records")
    THEN [ok |-> FALSE, error |-> "ValueError: No 'Records' key in event",
          records |-> <<>>]
    ELSE [ok |-> TRUE, error |-> "", records |-> ev.Records]

\* an except clause that answers with what was collected so far
HandlerReturnsPartial(e, collected) ==
    [kind |-> "return", error |-> "", Responses |-> collected]

\* except Exception as e: raise e
HandlerRaise(e, collected) == [kind |-> "raise", error |-> e, Responses |-> <<>>]

\* return {"Responses": responses}
HandlerReturn(collected) == [kind |-> "return", error |-> "", Responses |-> collected]

\* responses.insert(0, response)
CollectResponseFirst(collected, response) == <<response>> \o collected

\* responses.append(response)
CollectResponse(collected, response) == Append(collected, response)

\* the for statement reaching record k with the responses collected so far:
\* the loop is exhausted and handler returns, or the record is extracted and
\* either the extractor raises or invoke_codebuild_project is entered
LoopHead(i, records, k, collected) ==
    IF k > Len(records)
    THEN [pc |-> "done", dd |-> dd[i], result |-> HandlerReturn(collected)]
    ELSE LET r == GetDeploymentDetails(records[k])
         IN  IF r.ok
             THEN [pc |-> "alloc", dd |-> r.dd, result |-> result[i]]
             ELSE [pc |-> "done", dd |-> dd[i],
                   result |-> HandlerRaise(r.error, collected)]

\* handler, from its entry up to its first call of a service (or to its end
\* when it makes none)
Begin(i) ==
    /\ pc[i] = "start"
    /\ LET v    == ValidateEvent(event[i])
           head == LoopHead(i, v.records, 1, responses[i])
       IN  IF v.ok
           THEN /\ pc' = [pc EXCEPT ![i] = head.pc]
                /\ dd' = [dd EXCEPT ![i] = head.dd]
                /\ result' = [result EXCEPT ![i] = head.result]
           ELSE /\ pc' = [pc EXCEPT ![i] = "done"]
                /\ result' = [result EXCEPT ![i] = HandlerRaise(v.error, responses[i])]
                /\ UNCHANGED dd
    /\ UNCHANGED <<event, idx, buildNumber, responses, store, puts, builds,
                   extractVars>>

\* __get_new_build_number wrapped in a retry: a failed put_parameter is
\* attempted once more for the same record
AllocateBuildNumberRetrying(i) ==
    /\ pc[i] = "alloc"
    /\ \E t \in TimeValues, ok \in BOOLEAN :
         LET name         == ParamName(dd[i])
             current_time == IntToStr(t)
             st           == PutParameter(store, name, current_time)
             returned     == NewBuildNumber(PutResponse(st, name), current_time)
             attempts     == Cardinality({n \in 1..Len(puts) :
                                 puts[n].inv = i /\ puts[n].rec = idx[i]})
         IN  IF ok
             THEN /\ store' = st
                  /\ buildNumber' = [buildNumber EXCEPT ![i] = returned]
                  /\ puts' = Append(puts, PutCall(i, idx[i], TRUE, dd[i], name,
                                        st[name].Version, returned))
                  /\ pc' = [pc EXCEPT ![i] = "build"]
                  /\ UNCHANGED result
             ELSE /\ puts' = Append(puts, PutCall(i, idx[i], FALSE, dd[i], name,
                                        0, <<>>))
                  /\ IF attempts = 0
                     THEN UNCHANGED <<pc, result>>
                     ELSE /\ pc' = [pc EXCEPT ![i] = "done"]
                          /\ result' = [result EXCEPT ![i] =
                                 HandlerRaise("ClientError: put_parameter", responses[i])]
                  /\ UNCHANGED <<store, buildNumber>>
    /\ UNCHANGED <<event, idx, dd, responses, builds, extractVars>>

\* build_number = __get_new_build_number(dd): one put_parameter, served
\* atomically by the store, or a ClientError that writes nothing
AllocateBuildNumber(i) ==
    /\ pc[i] = "alloc"
    /\ \E t \in TimeValues, ok \in BOOLEAN :
         LET name         == ParamName(dd[i])
             current_time == IntToStr(t)
             st           == PutParameter(store, name, current_time)
             returned     == NewBuildNumber(PutResponse(st, name), current_time)
         IN  IF ok
             THEN /\ store' = st
                  /\ buildNumber' = [buildNumber EXCEPT ![i] = returned]
                  /\ puts' = Append(puts, PutCall(i, idx[i], TRUE, dd[i], name,
                                        st[name].Version, returned))
                  /\ pc' = [pc EXCEPT ![i] = "build"]
                  /\ UNCHANGED result
             ELSE /\ puts' = Append(puts, PutCall(i, idx[i], FALSE, dd[i], name,
                                        0, <<>>))
                  /\ pc' = [pc EXCEPT ![i] = "done"]
                  /\ result' = [result EXCEPT ![i] =
                                   HandlerRaise("ClientError: put_parameter", responses[i])]
                  /\ UNCHANGED <<store, buildNumber>>
    /\ UNCHANGED <<event, idx, dd, responses, builds, extractVars>>

\* invoke_codebuild_project compensating a failed start_build: the parameter
\* written for the record is deleted again before the error propagates
StartBuildRollingBack(i) ==
    /\ pc[i] = "build"
    /\ \E ok \in BOOLEAN :
         LET project   == ProjectName(dd[i])
             env       == EnvVars(dd[i], buildNumber[i], BucketName)
             response  == StartBuildResponse(BuildsStarted(builds) + 1, project,
                                             dd[i].branch)
             collected == CollectResponse(responses[i], response)
             head      == LoopHead(i, ValidateEvent(event[i]).records, idx[i] + 1,
                                   collected)
         IN  IF ok
             THEN /\ builds' = Append(builds, BuildCall(i, idx[i], TRUE, project,
                                        dd[i].branch, env, response))
                  /\ responses' = [responses EXCEPT ![i] = collected]
                  /\ idx' = [idx EXCEPT ![i] = idx[i] + 1]
                  /\ pc' = [pc EXCEPT ![i] = head.pc]
                  /\ dd' = [dd EXCEPT ![i] = head.dd]
                  /\ result' = [result EXCEPT ![i] = head.result]
                  /\ UNCHANGED store
             ELSE /\ builds' = Append(builds, BuildCall(i, idx[i], FALSE, project,
                                        dd[i].branch, env, NoResponse))
                  /\ store' = [n \in DOMAIN store \ {ParamName(dd[i])} |-> store[n]]
                  /\ pc' = [pc EXCEPT ![i] = "done"]
                  /\ result' = [result EXCEPT ![i] =
                                   HandlerRaise("ClientError: start_build", responses[i])]
                  /\ UNCHANGED <<responses, idx, dd>>
    /\ UNCHANGED <<event, buildNumber, puts, extractVars>>

\* the rest of invoke_codebuild_project, responses.append(response) and the
\* for statement moving to the next record
StartBuild(i) ==
    /\ pc[i] = "build"
    /\ \E ok \in BOOLEAN :
         LET project   == ProjectName(dd[i])
             env       == EnvVars(dd[i], buildNumber[i], BucketName)
             response  == StartBuildResponse(BuildsStarted(builds) + 1, project,
                                             dd[i].branch)
             collected == CollectResponse(responses[i], response)
             head      == LoopHead(i, ValidateEvent(event[i]).records, idx[i] + 1,
                                   collected)
         IN  IF ok
             THEN /\ builds' = Append(builds, BuildCall(i, idx[i], TRUE, project,
                                        dd[i].branch, env, response))
                  /\ responses' = [responses EXCEPT ![i] = collected]
                  /\ idx' = [idx EXCEPT ![i] = idx[i] + 1]
                  /\ pc' = [pc EXCEPT ![i] = head.pc]
                  /\ dd' = [dd EXCEPT ![i] = head.dd]
                  /\ result' = [result EXCEPT ![i] = head.result]
             ELSE /\ builds' = Append(builds, BuildCall(i, idx[i], FALSE, project,
                                        dd[i].branch, env, NoResponse))
                  /\ pc' = [pc EXCEPT ![i] = "done"]
                  /\ result' = [result EXCEPT ![i] =
                                   HandlerRaise("ClientError: start_build", responses[i])]
                  /\ UNCHANGED <<responses, idx, dd>>
    /\ UNCHANGED <<event, buildNumber, store, puts, extractVars>>

-----------------------------------------------------------------------------
(* Events *)

RecA == MkRecord(ArnPrefix \o <<"p", "-", "a">>,
                 <<MkRef(RefsHeads \o <<"m">>, LongCommit)>>)

RecB == MkRecord(ArnPrefix \o <<"p", "-", "a", "-", "b">>,
                 <<MkRef(RefsHeads \o <<"n", "/", "m">>, LongCommit)>>)

RecBad == MkRecord(ArnPrefix \o <<"p", "-", "a">>, <<>>)

RecordPool == {RecA, RecB, RecBad}

Events ==
    {[Records |-> rs] : rs \in SeqsUpTo(RecordPool, 0, MaxRecords)}
    \cup {[NotRecords |-> <<>>]}

\* the events of the invocations that run beside invocation 1
PeerEvents == {[Records |-> <<r>>] : r \in {RecA}}

InitHandler ==
    /\ \E e \in Events, peers \in [Invocations \ {1} -> PeerEvents] :
         event = [i \in Invocations |-> IF i = 1 THEN e ELSE peers[i]]
    /\ pc = [i \in Invocations |-> "start"]
    /\ idx = [i \in Invocations |-> 1]
    /\ dd = [i \in Invocations |-> NoDD]
    /\ buildNumber = [i \in Invocations |-> <<>>]
    /\ responses = [i \in Invocations |-> <<>>]
    /\ result = [i \in Invocations |-> NoResult]
    /\ store = <<>>
    /\ puts = <<>>
    /\ builds = <<>>

Init ==
    /\ InitHandler
    /\ xrecord = NoRecord
    /\ xresult = Pending

Next ==
    \E i \in Invocations :
        \/ Begin(i)
        \/ AllocateBuildNumber(i)
        \/ StartBuild(i)

Spec == Init /\ [][Next]_vars

-----------------------------------------------------------------------------
(* The extractor on its own *)

InitExtract ==
    /\ event = [i \in Invocations |-> [Records |-> <<>>]]
    /\ pc = [i \in Invocations |-> "start"]
    /\ idx = [i \in Invocations |-> 1]
    /\ dd = [i \in Invocations |-> NoDD]
    /\ buildNumber = [i \in Invocations |-> <<>>]
    /\ responses = [i \in Invocations |-> <<>>]
    /\ result = [i \in Invocations |-> NoResult]
    /\ store = <<>>
    /\ puts = <<>>
    /\ builds = <<>>
    /\ \/ \E name \in RepoNames, x \in BranchTexts, shape \in Shapes :
              xrecord = WellShapedRecord(name, x, shape)
       \/ xrecord \in MalformedRecords
    /\ xresult = Pending

ExtractRecord ==
    /\ xresult = Pending
    /\ xresult' = GetDeploymentDetails(xrecord)
    /\ UNCHANGED <<xrecord, handlerVars>>

NextExtract == ExtractRecord

SpecExtract == InitExtract /\ [][NextExtract]_vars

-----------------------------------------------------------------------------
(* Properties of handler *)

\* the records of invocation i's event, none when the event has no Records
RecordsOf(i) == IF Has(event[i], "Records") THEN event[i].Records ELSE <<>>

\* the put_parameter calls and start_build calls made for record k of i
PutsFor(i, k) == {n \in 1..Len(puts) : puts[n].inv = i /\ puts[n].rec = k}

BuildsFor(i, k) == {n \in 1..Len(builds) : builds[n].inv = i /\ builds[n].rec = k}

PutsBy(i) == {n \in 1..Len(puts) : puts[n].inv = i}

BuildsBy(i) == {n \in 1..Len(builds) : builds[n].inv = i}

\* the stage at which record k of invocation i failed, "" when it has not
FailedStage(i, k) ==
    IF \E n \in PutsFor(i, k) : ~puts[n].ok THEN "ClientError: put_parameter"
    ELSE IF \E n \in BuildsFor(i, k) : ~builds[n].ok THEN "ClientError: start_build"
    ELSE IF pc[i] = "done" /\ idx[i] = k /\ PutsFor(i, k) = {} THEN "extraction"
    ELSE ""

\* the raw extraction error of a record, read off its shape
ShapeError(record) ==
    IF {"eventSourceARN", "codecommit"} \subseteq DOMAIN record
       /\ "references" \in DOMAIN record.codecommit
       /\ Len(record.codecommit.references) = 0
    THEN "IndexError" ELSE "KeyError"

\* C1: when a record of the event fails at extraction, counter allocation or
\* build start, handler ends by raising that error with no result list, and
\* no put_parameter or start_build is made for any later record.
C1_FailFastNoPartialResult ==
    \A i \in Invocations : \A k \in 1..Len(RecordsOf(i)) :
        FailedStage(i, k) # "" =>
            /\ pc[i] = "done"
            /\ result[i].kind = "raise"
            /\ result[i].Responses = <<>>
            /\ result[i].error = IF FailedStage(i, k) = "extraction"
                                 THEN ShapeError(RecordsOf(i)[k])
                                 ELSE FailedStage(i, k)
            /\ \A j \in (k + 1)..Len(RecordsOf(i)) :
                   PutsFor(i, j) = {} /\ BuildsFor(i, j) = {}

\* a second record failed at build start after the first one's response had
\* been collected, and a third was waiting
C1_Witness ==
    \E i \in Invocations :
        /\ Len(RecordsOf(i)) >= 2
        /\ FailedStage(i, 2) = "ClientError: start_build"
        /\ Len(responses[i]) = 1
        /\ result[i].kind = "raise"

\* C2: an event without a Records field makes handler raise
\* ValueError("No 'Records' key in event") and the invocation has called
\* neither the parameter store nor the build service.
C2_MissingRecordsRaisesBeforeAnyCall ==
    \A i \in Invocations :
        "Records" \notin DOMAIN event[i] =>
            /\ PutsBy(i) = {} /\ BuildsBy(i) = {}
            /\ pc[i] \in {"start", "done"}
            /\ pc[i] = "done" =>
                   /\ result[i].kind = "raise"
                   /\ result[i].error = "ValueError: No 'Records' key in event"

C2_Witness ==
    \E i \in Invocations :
        /\ "Records" \notin DOMAIN event[i]
        /\ pc[i] = "done"
        /\ result[i].kind = "raise"

\* C3: an event whose Records list is empty makes handler return
\* {"Responses": []} and the invocation writes no parameter and starts no build.
C3_EmptyRecordsReturnsEmpty ==
    \A i \in Invocations :
        ("Records" \in DOMAIN event[i] /\ Len(event[i].Records) = 0) =>
            /\ PutsBy(i) = {} /\ BuildsBy(i) = {}
            /\ pc[i] = "done" =>
                   /\ result[i].kind = "return"
                   /\ result[i].Responses = <<>>

C3_Witness ==
    \E i \in Invocations :
        /\ "Records" \in DOMAIN event[i]
        /\ Len(event[i].Records) = 0
        /\ pc[i] = "done"
        /\ result[i].kind = "return"

\* every record of invocation i has a build that was started
AllSucceeded(i) ==
    /\ "Records" \in DOMAIN event[i]
    /\ \A k \in 1..Len(event[i].Records) : \E n \in BuildsFor(i, k) : builds[n].ok

\* C4: when all n records succeed handler returns exactly n responses, the
\* k-th being the unmodified start_build response obtained for record k, and
\* the records are processed one after another in input order: the put for
\* record k+1 is made only after the build for record k has been started.
C4_ResponsesInInputOrder ==
    \A i \in Invocations :
        /\ (pc[i] = "done" /\ AllSucceeded(i)) =>
               /\ result[i].kind = "return"
               /\ Len(result[i].Responses) = Len(event[i].Records)
               /\ \A k \in 1..Len(event[i].Records) :
                      \E n \in BuildsFor(i, k) :
                          /\ builds[n].ok
                          /\ result[i].Responses[k] = builds[n].response
                          /\ builds[n].projectName =
                                 RepoName(event[i].Records[k].eventSourceARN)
        /\ \A n \in PutsBy(i) :
               puts[n].rec > 1 =>
                   \E m \in BuildsFor(i, puts[n].rec - 1) : builds[m].ok
        /\ \A m, n \in PutsBy(i) : m < n => puts[m].rec < puts[n].rec
        /\ \A m, n \in BuildsBy(i) : m < n => builds[m].rec < builds[n].rec
        /\ \A n \in BuildsBy(i) : \E m \in PutsFor(i, builds[n].rec) : puts[m].ok

\* two records with different repositories both built and returned
C4_Witness ==
    \E i \in Invocations :
        /\ pc[i] = "done"
        /\ AllSucceeded(i)
        /\ Len(RecordsOf(i)) = 2
        /\ RecordsOf(i)[1] # RecordsOf(i)[2]
        /\ Len(result[i].Responses) = 2

-----------------------------------------------------------------------------
(* Properties of the build counter *)

\* the parameter name the claim gives for a key
NameOfKey(key) ==
    <<"/">> \o key[1] \o <<"/">> \o key[2] \o <<"/">> \o key[3]
        \o <<"/", "b", "u", "i", "l", "d", "_", "t", "i", "m", "e">>

\* the successful allocations, as positions of the put log
Allocations == {n \in 1..Len(puts) : puts[n].ok}

\* m is the allocation that precedes n for the same parameter
PreviousAllocation(m, n) ==
    /\ m \in Allocations /\ n \in Allocations
    /\ m < n
    /\ puts[m].name = puts[n].name
    /\ \A l \in Allocations : (m < l /\ l < n) => puts[l].name # puts[n].name

\* C5: every allocation returns the version one greater than the one the
\* previous allocation for the same parameter returned (the first returns
\* "1"), whatever timestamp was written, the parameter is named
\* /{portfolio}/{app}/{branch}/build_time, and an allocation changes the
\* version of no other parameter: each stored version counts the allocations
\* made for that parameter alone.
C5_AllocationsIncrementByOne ==
    /\ \A n \in Allocations :
           /\ puts[n].name = NameOfKey(puts[n].key)
           /\ (\A m \in Allocations : m < n => puts[m].name # puts[n].name)
                  => puts[n].returned = <<"1">>
           /\ \A m \in Allocations :
                  PreviousAllocation(m, n) =>
                      \E v \in 1..Len(puts) :
                          /\ puts[m].returned = IntToStr(v)
                          /\ puts[n].returned = IntToStr(v + 1)
    /\ \A name \in DOMAIN store :
           store[name].Version =
               Cardinality({n \in Allocations : puts[n].name = name})
    /\ \A n \in Allocations : puts[n].name \in DOMAIN store

\* one invocation allocated twice in a row for one key, the second time
\* writing the timestamp 1699 of a clock that had stepped back, and another
\* key was allocated as well
C5_Witness ==
    \E m, n \in Allocations :
        /\ PreviousAllocation(m, n)
        /\ puts[m].inv = puts[n].inv
        /\ puts[n].returned = <<"2">>
        /\ store[puts[n].name] = [Version |-> 2, Value |-> <<"1", "6", "9", "9">>]
        /\ Cardinality(DOMAIN store) = 2

\* the allocations made for a key, whoever made them
AllocationsOfKey(key) == {n \in Allocations : puts[n].key = key}

\* C6: when invocations run concurrently, the allocations for one
\* (portfolio, app, branch) key receive pairwise distinct versions, strictly
\* increasing in the order the store served the writes, and the versions of
\* a key do not depend on the allocations made for other keys.
C6_ConcurrentAllocationsDistinct ==
    \A n \in Allocations :
        LET sameKey == AllocationsOfKey(puts[n].key)
        IN  /\ \A m \in sameKey :
                   /\ m < n => puts[m].version < puts[n].version
                   /\ m # n => puts[m].returned # puts[n].returned
            /\ puts[n].version =
                   Cardinality({m \in sameKey : m <= n})
            /\ puts[n].returned = IntToStr(puts[n].version)

\* the store served the write of one invocation between two writes of
\* another, the first two for the same key and the third for another key
C6_Witness ==
    \E l, m, n \in Allocations :
        /\ l < m /\ m < n
        /\ puts[l].inv = puts[n].inv
        /\ puts[m].inv # puts[l].inv
        /\ puts[l].key = puts[m].key
        /\ puts[n].key # puts[m].key

-----------------------------------------------------------------------------
(* Properties of the build start *)

EnvNames == <<"CLIENT", "PORTFOLIO", "APP", "BRANCH", "BUILD", "BUILD_NUMBER",
              "BUCKET_NAME">>

\* C7: every start_build call is made with project name {portfolio}-{app},
\* source revision the branch, and the overrides CLIENT, PORTFOLIO, APP,
\* BRANCH, BUILD, BUILD_NUMBER, BUCKET_NAME in that order, BUILD being the
\* first 7 characters of the commit and BUILD_NUMBER the string form of the
\* version the store returned for the put made for the same record.
C7_BuildStartArguments ==
    \A n \in 1..Len(builds) :
        LET i      == builds[n].inv
            k      == builds[n].rec
            record == RecordsOf(i)[k]
            d      == GetDeploymentDetails(record).dd
            env    == builds[n].environmentVariablesOverride
            commit == record.codecommit.references[1].commit
        IN  /\ builds[n].projectName = d.portfolio \o <<"-">> \o d.app
            /\ builds[n].sourceVersion = d.branch
            /\ Len(env) = 7
            /\ \A e \in 1..7 : env[e].name = EnvNames[e] /\ env[e].type = "PLAINTEXT"
            /\ env[2].value = d.portfolio
            /\ env[3].value = d.app
            /\ env[4].value = d.branch
            /\ env[5].value = SubSeq(commit, 1, 7)
            /\ Len(env[5].value) = 7
            /\ \E m \in PutsFor(i, k) :
                   /\ puts[m].ok
                   /\ env[6].value = IntToStr(puts[m].version)
                   /\ puts[m].version = Cardinality({l \in Allocations :
                          l <= m /\ puts[l].name = puts[m].name})

\* a build was started for a multi-dash repository with build number 2
C7_Witness ==
    \E n \in 1..Len(builds) :
        /\ builds[n].ok
        /\ builds[n].projectName = <<"p", "-", "a", "-", "b">>
        /\ builds[n].environmentVariablesOverride[6].value = <<"2">>

-----------------------------------------------------------------------------
(* Properties of the extractor *)

\* the positions of character c in s
Positions(s, c) == {p \in 1..Len(s) : s[p] = c}

Lowest(S) == CHOOSE p \in S : \A q \in S : p <= q

Highest(S) == CHOOSE p \in S : \A q \in S : q <= p

\* the text of s after its last c (all of s when it has no c)
AfterLast(s, c) ==
    IF Positions(s, c) = {} THEN s
    ELSE SubSeq(s, Highest(Positions(s, c)) + 1, Len(s))

\* the texts of s before and after its first c
BeforeFirst(s, c) == SubSeq(s, 1, Lowest(Positions(s, c)) - 1)

AfterFirst(s, c) == SubSeq(s, Lowest(Positions(s, c)) + 1, Len(s))

\* the repository name of the record under extraction
XName == AfterLast(xrecord.eventSourceARN, ":")

\* the ref of the first reference of the record under extraction
XRef == xrecord.codecommit.references[1].ref

StartsWithRefsHeads(ref) ==
    Len(ref) >= 11
    /\ SubSeq(ref, 1, 11) = <<"r", "e", "f", "s", "/", "h", "e", "a", "d", "s", "/">>

\* a branch name as git allows it: non-empty, no '/' at either end, no "//"
BranchName(x) ==
    /\ Len(x) > 0
    /\ x[1] # "/" /\ x[Len(x)] # "/"
    /\ \A p \in 1..(Len(x) - 1) : ~(x[p] = "/" /\ x[p + 1] = "/")

\* C8: for every ref refs/heads/X with X a branch name, also when X itself
\* contains '/', the extracted branch equals X.
C8_BranchIsTextAfterRefsHeads ==
    (xresult.ok /\ StartsWithRefsHeads(XRef) /\ BranchName(SubSeq(XRef, 12, Len(XRef))))
        => xresult.dd.branch = SubSeq(XRef, 12, Len(XRef))

\* C9: for a repository name (the last ':'-delimited segment of the ARN)
\* with at least one dash, portfolio is the text before the first dash and
\* app is everything after the first dash, further dashes intact.
C9_PortfolioAndAppSplitAtFirstDash ==
    (xresult.ok /\ Positions(XName, "-") # {}) =>
        /\ xresult.dd.portfolio = BeforeFirst(XName, "-")
        /\ xresult.dd.app = AfterFirst(XName, "-")

\* the name a-b-a behind an ARN prefix was split into a and b-a
C9_Witness ==
    /\ xresult.ok
    /\ xrecord.eventSourceARN =
           <<"a", "r", "n", ":", "c", "c", ":", "1", ":", "a", "-", "b", "-", "a">>
    /\ xresult.dd.portfolio = <<"a">>
    /\ xresult.dd.app = <<"b", "-", "a">>

\* C10 as stated, for the repository names that hold a letter: every
\* identity produced has a non-empty portfolio, and an empty app only when
\* the repository name contains no dash.
C10_PortfolioNeverEmpty ==
    (xresult.ok /\ Positions(XName, "a") \cup Positions(XName, "b") # {}) =>
        /\ xresult.dd.portfolio # <<>>
        /\ xresult.dd.app = <<>> => Positions(XName, "-") = {}

\* C10 amended: the portfolio of an identity is empty exactly when the
\* repository name is empty or begins with a dash, and its app is empty
\* exactly when the name contains no dash or nothing follows its first dash.
C10_EmptyPartsOnlyAtNameEdges ==
    xresult.ok =>
        /\ xresult.dd.portfolio = <<>> <=> (XName = <<>> \/ XName[1] = "-")
        /\ xresult.dd.app = <<>> <=>
               (Positions(XName, "-") = {}
                \/ Lowest(Positions(XName, "-")) = Len(XName))

\* a name without a dash gave an empty app and a non-empty portfolio
C10_Witness ==
    /\ xresult.ok
    /\ XName = <<"a", "b">>
    /\ xresult.dd.app = <<>>
    /\ xresult.dd.portfolio = <<"a", "b">>

-----------------------------------------------------------------------------
(* Properties of one record's calls *)

\* C11: within one invocation each record causes at most one put_parameter
\* and at most one start_build, the put being served before the build is
\* started; when the put for a record fails, no build is started for that
\* record, the put is not attempted again and the invocation ends.
C11_OneWriteThenOneBuildNoRetry ==
    \A i \in Invocations : \A k \in 1..Len(RecordsOf(i)) :
        /\ Cardinality(PutsFor(i, k)) <= 1
        /\ Cardinality(BuildsFor(i, k)) <= 1
        /\ BuildsFor(i, k) # {} => \E n \in PutsFor(i, k) : puts[n].ok
        /\ (\E n \in PutsFor(i, k) : ~puts[n].ok) =>
               /\ BuildsFor(i, k) = {}
               /\ pc[i] = "done"
               /\ result[i].kind = "raise"

\* the put for the second record failed after the first record had had its
\* one put and its one build
C11_Witness ==
    \E i \in Invocations :
        /\ Len(RecordsOf(i)) >= 2
        /\ Cardinality(PutsFor(i, 1)) = 1
        /\ Cardinality(BuildsFor(i, 1)) = 1
        /\ \E n \in PutsFor(i, 2) : ~puts[n].ok
        /\ BuildsFor(i, 2) = {}
        /\ pc[i] = "done"

-----------------------------------------------------------------------------
(* Properties of what a failed invocation leaves behind *)

\* the records of invocation i that had a build started / a version written
RecordsBuilt(i) == {builds[n].rec : n \in {m \in BuildsBy(i) : builds[m].ok}}

RecordsWritten(i) == {puts[n].rec : n \in {m \in PutsBy(i) : puts[m].ok}}

\* C12: nothing is rolled back. When handler ends with an error at record k
\* (1-based here), the builds it started are exactly those of records
\* 1..k-1, one each and in input order, the versions it wrote are those of
\* records 1..k-1 (and of record k when it failed at build start), each still
\* counted in the store, and the caller gets no response for any of them.
C12_NothingRolledBack ==
    \A i \in Invocations : \A k \in 1..Len(RecordsOf(i)) :
        FailedStage(i, k) # "" =>
            /\ result[i].kind = "raise"
            /\ result[i].Responses = <<>>
            /\ RecordsBuilt(i) = 1..(k - 1)
            /\ \A j \in 1..(k - 1) :
                   /\ Cardinality(BuildsFor(i, j)) = 1
                   /\ \A n \in BuildsFor(i, j) :
                          /\ builds[n].response # NoResponse
                          /\ builds[n].projectName =
                                 RepoName(RecordsOf(i)[j].eventSourceARN)
            /\ \A m, n \in BuildsBy(i) : m < n => builds[m].rec < builds[n].rec
            /\ RecordsWritten(i) =
                   IF FailedStage(i, k) = "ClientError: start_build"
                   THEN 1..k ELSE 1..(k - 1)
            /\ \A n \in PutsBy(i) :
                   puts[n].ok =>
                       /\ puts[n].name \in DOMAIN store
                       /\ store[puts[n].name].Version >= puts[n].version
                       /\ store[puts[n].name].Version =
                              Cardinality({m \in 1..Len(puts) :
                                  puts[m].ok /\ puts[m].name = puts[n].name})

\* the second record failed at build start: the first record's build and
\* both versions stay although handler raised
C12_Witness ==
    \E i \in Invocations :
        /\ Len(RecordsOf(i)) >= 2
        /\ FailedStage(i, 2) = "ClientError: start_build"
        /\ result[i].kind = "raise"
        /\ RecordsBuilt(i) = {1}
        /\ RecordsWritten(i) = {1, 2}
        /\ \E n \in PutsFor(i, 2) : store[puts[n].name].Version >= 2

====
